---- MODULE Spec2Model ----
(***************************************************************************)
(* Model of scripts/import-constellation-lines.py: ConstellationImporter   *)
(* (load, import_to_db, _create_schema, _insert_lines, _parse_int) and     *)
(* main.  CSV cells are character sequences; the SQLite file is modelled   *)
(* by its committed content plus the connection's uncommitted view.        *)
(***************************************************************************)
EXTENDS Integers, Sequences, FiniteSets, TLC

\* ---------------------------------------------------------------- bounds
MaxRows == 4          \* rows the csv reader may yield in one load
MaxLines == 2         \* length of an arbitrary record sequence given to import_to_db
MaxRuns == 2          \* successive import_to_db calls on the same database

\* ------------------------------------------------------ program constants
NumStarColumns == 31
STAR_COLUMNS == 1 .. NumStarColumns

\* ------------------------------------------------------------- cell text
Whitespace == {" "}
Digits == {"0", "1", "2", "3", "4", "5", "6", "7", "8", "9"}
DigitVal == ("0" :> 0) @@ ("1" :> 1) @@ ("2" :> 2) @@ ("3" :> 3) @@ ("4" :> 4)
            @@ ("5" :> 5) @@ ("6" :> 6) @@ ("7" :> 7) @@ ("8" :> 8) @@ ("9" :> 9)

\* A value of raw.get(column): None (key absent / short row) or a string.
NoneCell == [isNone |-> TRUE, text |-> <<>>]
Txt(s) == [isNone |-> FALSE, text |-> s]

RECURSIVE LStrip(_)
LStrip(s) == IF s = <<>> THEN s
             ELSE IF Head(s) \in Whitespace THEN LStrip(Tail(s)) ELSE s

RECURSIVE RStrip(_)
RStrip(s) == IF s = <<>> THEN s
             ELSE IF s[Len(s)] \in Whitespace THEN RStrip(SubSeq(s, 1, Len(s) - 1)) ELSE s

\* str.strip()
Strip(s) == RStrip(LStrip(s))

RECURSIVE DecVal(_)
DecVal(s) == IF s = <<>> THEN 0
             ELSE DecVal(SubSeq(s, 1, Len(s) - 1)) * 10 + DigitVal[s[Len(s)]]

\* int(stripped) accepts an optional sign followed by decimal digits
IsIntLiteral(s) ==
    LET body == IF s # <<>> /\ Head(s) \in {"+", "-"} THEN Tail(s) ELSE s
    IN body # <<>> /\ \A i \in 1 .. Len(body) : body[i] \in Digits

IntOf(s) == IF Head(s) = "-" THEN 0 - DecVal(Tail(s))
            ELSE IF Head(s) = "+" THEN DecVal(Tail(s)) ELSE DecVal(s)

PyNone == [tag |-> "none", val |-> 0]
PyInt(n) == [tag |-> "int", val |-> n]
PyValueError == [tag |-> "error", val |-> 0]

\* ConstellationImporter._parse_int
parse_int(raw) ==
    IF raw.isNone THEN PyNone
    ELSE LET stripped == Strip(raw.text)
         IN IF stripped = <<>> THEN PyNone
            ELSE IF IsIntLiteral(stripped) THEN PyInt(IntOf(stripped))
            ELSE PyValueError

\* ------------------------------------------------------------------ load
\* the counter is reset whenever an abbreviation is seen
SetDefault_Overwrite(d, k, v) == [x \in DOMAIN d \cup {k} |-> IF x = k THEN v ELSE d[x]]

\* dict.setdefault
SetDefault(d, k, v) == IF k \in DOMAIN d THEN d ELSE d @@ (k :> v)

ConstellationLine(c, n, ids) == [constellation |-> c, line_number |-> n, star_ids |-> ids]

LoadStart == [current_constellation |-> <<>>,
              per_constellation_counter |-> <<>>,
              lines |-> <<>>,
              raised |-> FALSE]

\* the filter tests truthiness instead of "is not None"
StarIds_Truthy(parsed) ==
    LET kept == SelectSeq(parsed, LAMBDA sid : sid.tag # "none" /\ sid.val # 0)
    IN [i \in 1 .. Len(kept) |-> kept[i].val]

\* lines 57-62: the parsed cells that are not None, in column order
StarIds(parsed) ==
    LET kept == SelectSeq(parsed, LAMBDA sid : sid.tag # "none")
    IN [i \in 1 .. Len(kept) |-> kept[i].val]

\* only the first abbreviation is ever taken
CarryOver_FirstOnly(current, abbr) == IF current = <<>> THEN abbr ELSE current

\* lines 49-50: a non-blank abbreviation replaces the current constellation
CarryOver(current, abbr) == IF abbr # <<>> THEN abbr ELSE current

\* the declared count is never compared
CountMismatch_Never(star_total, star_ids) == FALSE

\* line 64: the declared count is present and disagrees
CountMismatch(star_total, star_ids) ==
    star_total.tag = "int" /\ star_total.val # Len(star_ids)

\* rows without star ids are kept
NoRecord_Never(star_ids) == FALSE

\* line 69: a row without star ids yields no record
NoRecord(star_ids) == star_ids = <<>>

\* the row is parsed and validated before the leading-row test
ProcessRow_ValidateFirst(st, raw) ==
    LET abbr == Strip(IF raw.abr.isNone THEN <<>> ELSE raw.abr.text)
        cur == CarryOver(st.current_constellation, abbr)
        ctr == IF abbr # <<>> THEN SetDefault(st.per_constellation_counter, abbr, 0)
               ELSE st.per_constellation_counter
        star_total == parse_int(raw.nr)
        parsed == [c \in STAR_COLUMNS |-> parse_int(raw.stars[c])]
        star_ids == StarIds(parsed)
        line_number == ctr[cur] + 1
        seen == [st EXCEPT !.current_constellation = cur,
                           !.per_constellation_counter = ctr]
    IN IF star_total.tag = "error" \/ \E c \in STAR_COLUMNS : parsed[c].tag = "error"
            THEN [seen EXCEPT !.raised = TRUE]
       ELSE IF CountMismatch(star_total, star_ids)
            THEN [seen EXCEPT !.raised = TRUE]
       ELSE IF abbr = <<>> /\ st.current_constellation = <<>> THEN st
       ELSE IF NoRecord(star_ids) THEN seen
       ELSE [seen EXCEPT !.per_constellation_counter = [ctr EXCEPT ![cur] = line_number],
                         !.lines = Append(st.lines, ConstellationLine(cur, line_number, star_ids))]

\* one iteration of "for raw in reader"
ProcessRow(st, raw) ==
    LET abbr == Strip(IF raw.abr.isNone THEN <<>> ELSE raw.abr.text)
        cur == CarryOver(st.current_constellation, abbr)
        ctr == IF abbr # <<>> THEN SetDefault(st.per_constellation_counter, abbr, 0)
               ELSE st.per_constellation_counter
        star_total == parse_int(raw.nr)
        parsed == [c \in STAR_COLUMNS |-> parse_int(raw.stars[c])]
        star_ids == StarIds(parsed)
        line_number == ctr[cur] + 1
        seen == [st EXCEPT !.current_constellation = cur,
                           !.per_constellation_counter = ctr]
    IN IF abbr = <<>> /\ st.current_constellation = <<>> THEN st
       ELSE IF star_total.tag = "error" \/ \E c \in STAR_COLUMNS : parsed[c].tag = "error"
            THEN [seen EXCEPT !.raised = TRUE]
       ELSE IF CountMismatch(star_total, star_ids)
            THEN [seen EXCEPT !.raised = TRUE]
       ELSE IF NoRecord(star_ids) THEN seen
       ELSE [seen EXCEPT !.per_constellation_counter = [ctr EXCEPT ![cur] = line_number],
                         !.lines = Append(st.lines, ConstellationLine(cur, line_number, star_ids))]

\* the whole loop over a row sequence, stopping at the first raise
RECURSIVE LoadRows(_, _)
LoadRows(st, rows) ==
    IF rows = <<>> \/ st.raised THEN st
    ELSE LoadRows(ProcessRow(st, Head(rows)), Tail(rows))

\* ---------------------------------------------------------- csv contents
Stars(f) == [c \in STAR_COLUMNS |-> IF c \in DOMAIN f THEN f[c] ELSE NoneCell]
DigitChar == [n \in 0 .. 9 |-> CHOOSE d \in Digits : DigitVal[d] = n]
NumberText(n) == IF n < 10 THEN <<DigitChar[n]>> ELSE <<DigitChar[n \div 10], DigitChar[n % 10]>>

NoStars == Stars(1 :> Txt(<<>>) @@ 2 :> Txt(<<" ">>))
OneStar == Stars(1 :> Txt(<<"7">>))
TwoStars == Stars(1 :> Txt(<<"7">>) @@ 2 :> Txt(<<" ", "3">>))
GapStars == Stars(1 :> Txt(<<"5">>) @@ 2 :> Txt(<<" ">>) @@ 3 :> Txt(<<"0">>) @@ 4 :> Txt(<<>>))
LastStar == Stars(1 :> Txt(<<>>) @@ NumStarColumns :> Txt(<<"9", " ">>))
FullStars == [c \in STAR_COLUMNS |-> Txt(NumberText(NumStarColumns + 1 - c))]
JunkStars == Stars(1 :> Txt(<<"4">>) @@ 2 :> Txt(<<"x">>))

Row(a, n, s) == [abr |-> a, nr |-> n, stars |-> s]

Rows ==
    { Row(Txt(<<>>), Txt(<<"5">>), OneStar),
      Row(Txt(<<" ">>), Txt(<<"x">>), JunkStars),
      Row(NoneCell, Txt(<<>>), GapStars),
      Row(Txt(<<"A">>), Txt(<<"2">>), TwoStars),
      Row(Txt(<<"A">>), Txt(<<>>), NoStars),
      Row(Txt(<<"A">>), Txt(<<"5">>), GapStars),
      Row(Txt(<<"A">>), NoneCell, LastStar),
      Row(Txt(<<"B", " ">>), Txt(<<" ", "1">>), OneStar),
      Row(Txt(<<"B">>), Txt(<<"3", "1">>), FullStars),
      Row(Txt(<<>>), Txt(<<"0">>), NoStars) }

\* ------------------------------------------------------ database content
Absent == [exists |-> FALSE, rows |-> {}]
EmptyTable == [exists |-> TRUE, rows |-> {}]

LineIndex == "idx_constellation_line_constellation"
StarIndex == "idx_constellation_line_star_constellation"

\* DROP TABLE IF EXISTS constellation_line_star (the table's indexes go with it)
DropStarTable(d) == [d EXCEPT !.star = Absent, !.indexes = @ \ {StarIndex}]

\* the table is dropped but its sqlite_sequence entry is kept
DropLineTable_KeepSequence(d) == [d EXCEPT !.line = Absent, !.indexes = @ \ {LineIndex}]

\* DROP TABLE IF EXISTS constellation_line (its indexes and its
\* sqlite_sequence entry go with it)
DropLineTable(d) == [d EXCEPT !.line = Absent, !.seq = 0, !.indexes = @ \ {LineIndex}]

NumStatements == 6

\* the k-th statement of the executescript text
Statement(k, d) ==
    CASE k = 1 -> DropStarTable(d)
      [] k = 2 -> DropLineTable(d)
      [] k = 3 -> [d EXCEPT !.line = EmptyTable]
      [] k = 4 -> [d EXCEPT !.star = EmptyTable]
      [] k = 5 -> [d EXCEPT !.indexes = @ \cup {LineIndex}]
      [] k = 6 -> [d EXCEPT !.indexes = @ \cup {StarIndex}]

\* CREATE TABLE / CREATE INDEX without IF NOT EXISTS raise on an existing name
StatementRaises(k, d) ==
    \/ k = 3 /\ d.line.exists
    \/ k = 4 /\ d.star.exists
    \/ k = 5 /\ LineIndex \in d.indexes
    \/ k = 6 /\ StarIndex \in d.indexes

\* executescript runs in autocommit mode: statements k .. upto take effect one
\* by one, stopping at the first that raises
RECURSIVE ExecuteScript(_, _, _)
ExecuteScript(k, upto, d) ==
    IF k > upto THEN [db |-> d, ok |-> TRUE]
    ELSE IF StatementRaises(k, d) THEN [db |-> d, ok |-> FALSE]
    ELSE ExecuteScript(k + 1, upto, Statement(k, d))

MaxOf(S) == IF S = {} THEN 0 ELSE CHOOSE m \in S : \A x \in S : x <= m

\* INTEGER PRIMARY KEY AUTOINCREMENT: one more than the largest rowid ever used
NextLineId(d) == MaxOf({d.seq} \cup {r.line_id : r \in d.line.rows}) + 1

\* the enumerate() index is stored as it is
SequenceIndex_ZeroBased(index) == index

\* line 138: enumerate() is 0-based, the stored index is 1-based
SequenceIndex(index) == index + 1

\* lines 130-134: INSERT INTO constellation_line
InsertLineRow(d, line) ==
    [d EXCEPT !.line.rows = @ \cup {[line_id |-> NextLineId(d),
                                    constellation |-> line.constellation,
                                    line_number |-> line.line_number,
                                    star_count |-> Len(line.star_ids)]},
              !.seq = NextLineId(d)]

\* lines 136-139: executemany INSERT INTO constellation_line_star
InsertStarRows(d, line_id, line) ==
    [d EXCEPT !.star.rows = @ \cup {[line_id |-> line_id,
                                    sequence_index |-> SequenceIndex(index),
                                    bsc_number |-> line.star_ids[index + 1]]
                                   : index \in 0 .. Len(line.star_ids) - 1}]

\* contents of the two tables
Tables(d) == [line |-> d.line, star |-> d.star]

\* -------------------------------------------------- database files on disk
FreshFile == [journal_mode |-> "delete", line |-> Absent, star |-> Absent,
              seq |-> 0, indexes |-> {}]

ImportedFile ==
    [journal_mode |-> "wal",
     line |-> [exists |-> TRUE,
               rows |-> {[line_id |-> 1, constellation |-> <<"A">>, line_number |-> 1, star_count |-> 2],
                         [line_id |-> 2, constellation |-> <<"C">>, line_number |-> 1, star_count |-> 1]}],
     star |-> [exists |-> TRUE,
               rows |-> {[line_id |-> 1, sequence_index |-> 1, bsc_number |-> 7],
                         [line_id |-> 1, sequence_index |-> 2, bsc_number |-> 3],
                         [line_id |-> 2, sequence_index |-> 1, bsc_number |-> 8]}],
     seq |-> 2,
     indexes |-> {LineIndex, StarIndex}]

\* rows were deleted after an earlier import: sqlite_sequence is ahead of the rows
EditedFile ==
    [journal_mode |-> "delete",
     line |-> [exists |-> TRUE,
               rows |-> {[line_id |-> 3, constellation |-> <<"B">>, line_number |-> 2, star_count |-> 1]}],
     star |-> [exists |-> TRUE,
               rows |-> {[line_id |-> 3, sequence_index |-> 1, bsc_number |-> 9]}],
     seq |-> 5,
     indexes |-> {LineIndex, StarIndex}]

PriorDBs == {FreshFile, ImportedFile, EditedFile}

\* arbitrary records an import_to_db caller may pass
Records == {ConstellationLine(c, n, ids) :
                c \in {<<"A">>, <<"B">>}, n \in {1, 2}, ids \in {<<>>, <<7>>, <<5, 0>>}}

RecordSeqs == UNION {[1 .. n -> Records] : n \in 0 .. MaxLines}

\* ----------------------------------------------------------------- state
VARIABLES
    pc,                         \* position of main / load / import_to_db
    raised,                     \* the failure that propagated out of main, "" if none
    csv_exists,                 \* self._csv_path.exists()
    handle,                     \* the csv file handle: "unopened", "open", "closed"
    csv_rows,                   \* the rows the reader has yielded so far
    current_constellation,      \* local of load
    per_constellation_counter,  \* local of load
    lines,                      \* local of load
    line_rows,                  \* for each element of lines, the index of its row in csv_rows
    returned,                   \* main's lines: the argument of import_to_db
    db,                         \* committed content of the database file
    db_before,                  \* content of the file when import_to_db was entered
    conn,                       \* the connection of import_to_db: "none", "open", "closed"
    work,                       \* the connection's view, uncommitted changes included
    in_transaction,             \* conn.in_transaction
    cursor_open,                \* the cursor of _insert_lines
    next_line,                  \* position of "for line in lines"
    runs,                       \* number of import_to_db calls on this file
    last                        \* tables left by the preceding call, when it succeeded

vars == <<pc, raised, csv_exists, handle, csv_rows, current_constellation,
          per_constellation_counter, lines, line_rows, returned, db, db_before,
          conn, work, in_transaction, cursor_open, next_line, runs, last>>

loadVars == <<csv_exists, handle, csv_rows, current_constellation,
              per_constellation_counter, lines, line_rows>>
dbVars == <<db, db_before, conn, work, in_transaction, cursor_open, next_line>>

NoLast == [ok |-> FALSE, tables |-> Tables(FreshFile)]

InitCommon ==
    /\ raised = ""
    /\ csv_rows = <<>>
    /\ current_constellation = LoadStart.current_constellation
    /\ per_constellation_counter = LoadStart.per_constellation_counter
    /\ lines = LoadStart.lines
    /\ line_rows = <<>>
    /\ db_before = db
    /\ conn = "none"
    /\ work = db
    /\ in_transaction = FALSE
    /\ cursor_open = FALSE
    /\ next_line = 1
    /\ runs = 1
    /\ last = NoLast

\* main about to call load
Init ==
    /\ pc = "start"
    /\ csv_exists \in BOOLEAN
    /\ handle = "unopened"
    /\ returned = <<>>
    /\ db \in {FreshFile, ImportedFile}
    /\ InitCommon

\* a caller about to call load alone
InitLoad ==
    /\ pc = "start"
    /\ csv_exists \in BOOLEAN
    /\ handle = "unopened"
    /\ returned = <<>>
    /\ db = FreshFile
    /\ InitCommon

\* a caller about to call import_to_db with an arbitrary record sequence
InitImport ==
    /\ pc = "loaded"
    /\ csv_exists = TRUE
    /\ handle = "unopened"
    /\ returned \in RecordSeqs
    /\ db \in PriorDBs
    /\ InitCommon

\* ------------------------------------------------------------------ load
LoadMissing ==
    /\ pc = "start"
    /\ ~csv_exists
    /\ pc' = "load_raised"
    /\ raised' = "FileNotFoundError"
    /\ UNCHANGED <<loadVars, returned, dbVars, runs, last>>

LoadOpen ==
    /\ pc = "start"
    /\ csv_exists
    /\ pc' = "reading"
    /\ handle' = "open"
    /\ current_constellation' = LoadStart.current_constellation
    /\ per_constellation_counter' = LoadStart.per_constellation_counter
    /\ lines' = LoadStart.lines
    /\ UNCHANGED <<raised, csv_exists, csv_rows, line_rows, returned, dbVars, runs, last>>

LoadLocals == [current_constellation |-> current_constellation,
               per_constellation_counter |-> per_constellation_counter,
               lines |-> lines,
               raised |-> FALSE]

\* the reader yields one more row and the loop body runs on it; a raise leaves
\* the with block, which closes the handle
LoadRow ==
    /\ pc = "reading"
    /\ Len(csv_rows) < MaxRows
    /\ \E raw \in Rows :
        LET st == ProcessRow(LoadLocals, raw)
        IN /\ csv_rows' = Append(csv_rows, raw)
           /\ current_constellation' = st.current_constellation
           /\ per_constellation_counter' = st.per_constellation_counter
           /\ lines' = st.lines
           /\ line_rows' = IF Len(st.lines) > Len(lines)
                           THEN Append(line_rows, Len(csv_rows) + 1) ELSE line_rows
           /\ IF st.raised
              THEN pc' = "load_raised" /\ raised' = "ValueError" /\ handle' = "closed"
              ELSE UNCHANGED <<pc, raised, handle>>
    /\ UNCHANGED <<csv_exists, returned, dbVars, runs, last>>

\* the reader is exhausted: the with block closes the handle, load returns lines
LoadReturn ==
    /\ pc = "reading"
    /\ pc' = "loaded"
    /\ handle' = "closed"
    /\ returned' = lines
    /\ UNCHANGED <<raised, csv_exists, csv_rows, current_constellation,
                   per_constellation_counter, lines, line_rows, dbVars, runs, last>>

\* ---------------------------------------------------------- import_to_db
\* the with block of import_to_db is left by an exception: Connection.__exit__
\* rolls the open transaction back and leaves the connection open
ExitRaising(kind) ==
    /\ pc' = "import_raised"
    /\ raised' = kind
    /\ in_transaction' = FALSE

Connect ==
    /\ pc = "loaded"
    /\ pc' = "connected"
    /\ conn' = "open"
    /\ work' = db
    /\ db_before' = db
    /\ UNCHANGED <<raised, loadVars, returned, db, in_transaction, cursor_open,
                   next_line, runs, last>>

\* mkdir or sqlite3.connect raises: no connection exists
ConnectFail ==
    /\ pc = "loaded"
    /\ pc' = "import_raised"
    /\ raised' = "connect"
    /\ db_before' = db
    /\ UNCHANGED <<loadVars, returned, db, conn, work, in_transaction, cursor_open,
                   next_line, runs, last>>

\* PRAGMA journal_mode = WAL is recorded in the file; synchronous is per connection
Pragmas ==
    /\ pc = "connected"
    /\ pc' = "schema"
    /\ db' = [db EXCEPT !.journal_mode = "wal"]
    /\ work' = db'
    /\ UNCHANGED <<raised, loadVars, returned, db_before, conn, in_transaction,
                   cursor_open, next_line, runs, last>>

PragmaFail ==
    /\ pc = "connected"
    /\ \E done \in 0 .. 1 :
        db' = IF done = 1 THEN [db EXCEPT !.journal_mode = "wal"] ELSE db
    /\ work' = db'
    /\ ExitRaising("pragma")
    /\ UNCHANGED <<loadVars, returned, db_before, conn, cursor_open, next_line, runs, last>>

\* _create_schema, then conn.cursor() of _insert_lines.  executescript commits a
\* pending transaction first and runs its statements in autocommit mode.
CreateSchema ==
    /\ pc = "schema"
    /\ LET r == ExecuteScript(1, NumStatements, IF in_transaction THEN work ELSE db)
       IN /\ db' = r.db
          /\ work' = r.db
          /\ IF r.ok
             THEN /\ pc' = "inserting"
                  /\ cursor_open' = TRUE
                  /\ next_line' = 1
                  /\ in_transaction' = FALSE
                  /\ UNCHANGED raised
             ELSE /\ ExitRaising("schema")
                  /\ UNCHANGED <<cursor_open, next_line>>
    /\ UNCHANGED <<loadVars, returned, db_before, conn, runs, last>>

\* a statement of the script fails (I/O error, locked file) after the first
\* upto statements took effect
SchemaFail ==
    /\ pc = "schema"
    /\ \E upto \in 0 .. NumStatements - 1 :
        db' = ExecuteScript(1, upto, db).db
    /\ work' = db'
    /\ ExitRaising("schema")
    /\ UNCHANGED <<loadVars, returned, db_before, conn, cursor_open, next_line, runs, last>>

\* one iteration of "for line in lines": the first INSERT opens the transaction
InsertLine ==
    /\ pc = "inserting"
    /\ next_line <= Len(returned)
    /\ LET line == returned[next_line]
           line_id == NextLineId(work)
       IN work' = InsertStarRows(InsertLineRow(work, line), line_id, line)
    /\ in_transaction' = TRUE
    /\ next_line' = next_line + 1
    /\ UNCHANGED <<pc, raised, loadVars, returned, db, db_before, conn, cursor_open,
                   runs, last>>

\* an INSERT of this iteration raises: finally closes the cursor, the with
\* block rolls back
InsertFail ==
    /\ pc = "inserting"
    /\ next_line <= Len(returned)
    /\ cursor_open' = FALSE
    /\ work' = db
    /\ ExitRaising("insert")
    /\ UNCHANGED <<loadVars, returned, db, db_before, conn, next_line, runs, last>>

\* the loop is exhausted: cursor.close(), conn.commit(), the with block exits,
\* import_to_db returns and main prints
Commit ==
    /\ pc = "inserting"
    /\ next_line > Len(returned)
    /\ cursor_open' = FALSE
    /\ db' = IF in_transaction THEN work ELSE db
    /\ in_transaction' = FALSE
    /\ pc' = "done"
    /\ UNCHANGED <<raised, loadVars, returned, db_before, conn, work, next_line,
                   runs, last>>

\* conn.commit() raises: the with block rolls back
CommitFail ==
    /\ pc = "inserting"
    /\ next_line > Len(returned)
    /\ in_transaction
    /\ cursor_open' = FALSE
    /\ work' = db
    /\ ExitRaising("commit")
    /\ UNCHANGED <<loadVars, returned, db, db_before, conn, next_line, runs, last>>

\* nothing in import_to_db closes conn; once the call is over the interpreter
\* may reclaim the unreferenced connection object, which closes it
Finalize ==
    /\ pc \in {"done", "import_raised"}
    /\ conn = "open"
    /\ conn' = "closed"
    /\ UNCHANGED <<pc, raised, loadVars, returned, db, db_before, work, in_transaction,
                   cursor_open, next_line, runs, last>>

\* import_to_db is run again with the same records on the file as it was left
Rerun ==
    /\ pc \in {"done", "import_raised"}
    /\ runs < MaxRuns
    /\ runs' = runs + 1
    /\ last' = IF pc = "done" THEN [ok |-> TRUE, tables |-> Tables(db)] ELSE NoLast
    /\ pc' = "loaded"
    /\ raised' = ""
    /\ conn' = "none"
    /\ work' = db
    /\ next_line' = 1
    /\ UNCHANGED <<loadVars, returned, db, db_before, in_transaction, cursor_open>>

ImportNext ==
    \/ Connect
    \/ ConnectFail
    \/ Pragmas
    \/ PragmaFail
    \/ CreateSchema
    \/ SchemaFail
    \/ InsertLine
    \/ InsertFail
    \/ Commit
    \/ CommitFail
    \/ Finalize

LoadNext ==
    \/ LoadMissing
    \/ LoadOpen
    \/ LoadRow
    \/ LoadReturn

Next ==
    \/ LoadNext
    \/ ImportNext

NextImport ==
    \/ ImportNext
    \/ Rerun

\* one run of main
Spec == Init /\ [][Next]_vars

\* load called on its own
SpecLoad == InitLoad /\ [][LoadNext]_vars

\* import_to_db called, possibly repeatedly, with arbitrary records
SpecImport == InitImport /\ [][NextImport]_vars

\* ------------------------------------------------------------ properties
\* vocabulary of the properties, stated on the csv text
NonBlank(cell) == ~cell.isNone /\ Strip(cell.text) # <<>>

NonBlankStarColumns(row) == {c \in STAR_COLUMNS : NonBlank(row.stars[c])}

\* number of rows before the first row with a non-blank abr
RECURSIVE Leading(_)
Leading(rows) ==
    IF rows = <<>> \/ NonBlank(Head(rows).abr) THEN 0 ELSE 1 + Leading(Tail(rows))

Processed(i) == i \in 1 .. Len(csv_rows) /\ i > Leading(csv_rows)

LoadReturned == pc \notin {"start", "reading", "load_raised"}

\* a non-blank nr that is not the number of non-blank star cells
WrongCount(row) ==
    /\ NonBlank(row.nr)
    /\ LET t == Strip(row.nr.text)
       IN ~IsIntLiteral(t) \/ IntOf(t) # Cardinality(NonBlankStarColumns(row))

\* the code of the nearest row at or before row i whose abr is non-blank
NearestCode(i) ==
    LET j == CHOOSE j \in 1 .. i :
                 /\ NonBlank(csv_rows[j].abr)
                 /\ \A m \in (j + 1) .. i : ~NonBlank(csv_rows[m].abr)
    IN Strip(csv_rows[j].abr.text)

\* the non-blank star cells of a row in column order, as integers
RECURSIVE CellsFrom(_, _)
CellsFrom(row, c) ==
    IF c > NumStarColumns THEN <<>>
    ELSE IF NonBlank(row.stars[c])
         THEN <<IntOf(Strip(row.stars[c].text))>> \o CellsFrom(row, c + 1)
         ELSE CellsFrom(row, c + 1)

LineNumbersOf(recs, c) ==
    LET sel == SelectSeq(recs, LAMBDA r : r.constellation = c)
    IN [i \in 1 .. Len(sel) |-> sel[i].line_number]

\* C2: for every constellation code, the line numbers of the returned records
\* of that code, in output order, are exactly 1, 2, ..., k.
C2_DenseLineNumbers ==
    \A c \in {returned[k].constellation : k \in 1 .. Len(returned)} :
        LineNumbersOf(returned, c) = [i \in 1 .. Len(LineNumbersOf(returned, c)) |-> i]

\* load succeeded on rows where a constellation is interrupted by another one
\* and reappears, and where a row with a code but no stars was read
C2_Witness ==
    /\ pc = "loaded"
    /\ Len(returned) = 3
    /\ returned[1].constellation = returned[3].constellation
    /\ returned[1].constellation # returned[2].constellation
    /\ \E i \in 1 .. Len(csv_rows) :
        /\ NonBlank(csv_rows[i].abr)
        /\ NonBlankStarColumns(csv_rows[i]) = {}
        /\ i < line_rows[3]

\* C3: once a processed row has a non-blank nr that differs from its number of
\* non-blank star cells, load has raised, main holds no records, import_to_db
\* was never entered and the database file is as it was before the run.
C3_MismatchAbortsRun ==
    (\E i \in 1 .. Len(csv_rows) : Processed(i) /\ WrongCount(csv_rows[i]))
        => /\ pc = "load_raised"
           /\ raised = "ValueError"
           /\ returned = <<>>
           /\ conn = "none"
           /\ db = db_before
           /\ work = db

\* a row declaring 5 stars with 2 supplied raised after valid rows had produced
\* records, on a database that held rows
C3_Witness ==
    /\ pc = "load_raised"
    /\ lines # <<>>
    /\ db.line.rows # {}
    /\ LET bad == csv_rows[Len(csv_rows)]
       IN /\ IsIntLiteral(Strip(bad.nr.text))
          /\ IntOf(Strip(bad.nr.text)) = 5
          /\ Cardinality(NonBlankStarColumns(bad)) = 2

\* C6: every returned record carries the code of the nearest row at or before
\* its own row whose abr is non-blank, whether or not that row produced a record.
C6_CarryOver ==
    LoadReturned /\ handle = "closed" =>
        /\ Len(line_rows) = Len(returned)
        /\ \A k \in 1 .. Len(returned) :
            /\ Processed(line_rows[k])
            /\ returned[k].constellation = NearestCode(line_rows[k])

\* a blank-abr row produced a record, and the row that supplied its code
\* produced none and switched the constellation of an earlier record
C6_Witness ==
    /\ pc = "loaded"
    /\ \E k \in 1 .. Len(returned) :
        /\ ~NonBlank(csv_rows[line_rows[k]].abr)
        /\ line_rows[k] - 1 \notin {line_rows[m] : m \in 1 .. Len(line_rows)}
        /\ NonBlank(csv_rows[line_rows[k] - 1].abr)
        /\ k > 1
        /\ returned[k - 1].constellation # returned[k].constellation

\* C7 as stated: every returned record has between 2 and 31 star ids, and as
\* many as its row's nr declares when nr is present.
C7_TwoToThirtyOne ==
    LoadReturned /\ handle = "closed" =>
        \A k \in 1 .. Len(returned) :
            /\ Len(returned[k].star_ids) >= 2
            /\ Len(returned[k].star_ids) <= 31
            /\ NonBlank(csv_rows[line_rows[k]].nr)
                 => Len(returned[k].star_ids) = IntOf(Strip(csv_rows[line_rows[k]].nr.text))

\* C7 amended: every returned record has between 1 and 31 star ids, and as
\* many as its row's nr declares when nr is present.
C7_OneToThirtyOne ==
    LoadReturned /\ handle = "closed" =>
        \A k \in 1 .. Len(returned) :
            /\ Len(returned[k].star_ids) >= 1
            /\ Len(returned[k].star_ids) <= 31
            /\ NonBlank(csv_rows[line_rows[k]].nr)
                 => Len(returned[k].star_ids) = IntOf(Strip(csv_rows[line_rows[k]].nr.text))

\* load returned a record of 31 star ids and a record of a single star id,
\* both from rows that declare their count
C7_Witness ==
    /\ pc = "loaded"
    /\ \E k, m \in 1 .. Len(returned) :
        /\ Len(returned[k].star_ids) = 31
        /\ Len(returned[m].star_ids) = 1
        /\ NonBlank(csv_rows[line_rows[k]].nr)
        /\ NonBlank(csv_rows[line_rows[m]].nr)

\* C9: the rows before the first non-blank abr yield no record and raise
\* nothing, and what load returns (or that it raises) is what it returns on
\* the same rows with those leading rows removed.
C9_LeadingRowsSkipped ==
    LET n == Leading(csv_rows)
        rest == SubSeq(csv_rows, n + 1, Len(csv_rows))
        alone == LoadRows(LoadStart, rest)
    IN /\ \A k \in 1 .. Len(line_rows) : line_rows[k] > n
       /\ pc = "load_raised" /\ raised = "ValueError" => Len(csv_rows) > n /\ alone.raised
       /\ pc = "reading" => ~alone.raised /\ lines = alone.lines
       /\ LoadReturned /\ handle = "closed" => ~alone.raised /\ returned = alone.lines

\* load returned records although the csv started with a row whose declared
\* count disagrees with its stars and a row with non-integer text
C9_Witness ==
    /\ pc = "loaded"
    /\ returned # <<>>
    /\ Leading(csv_rows) = 2
    /\ \E i, j \in 1 .. 2 :
        /\ WrongCount(csv_rows[i])
        /\ \E c \in STAR_COLUMNS :
              NonBlank(csv_rows[j].stars[c]) /\ ~IsIntLiteral(Strip(csv_rows[j].stars[c].text))

\* C10: the star ids of a record are the non-blank star cells of its row in
\* column order, as integers; a processed row whose star cells are all blank
\* and whose nr is blank or 0 produces no record and no error.
C10_StarIdsAreNonBlankCells ==
    /\ \A k \in 1 .. Len(line_rows) :
          lines[k].star_ids = CellsFrom(csv_rows[line_rows[k]], 1)
    /\ \A i \in 1 .. Len(csv_rows) :
          /\ Processed(i)
          /\ NonBlankStarColumns(csv_rows[i]) = {}
          /\ ~NonBlank(csv_rows[i].nr) \/ Strip(csv_rows[i].nr.text) = <<"0">>
          => /\ i \notin {line_rows[k] : k \in 1 .. Len(line_rows)}
             /\ ~(pc = "load_raised" /\ i = Len(csv_rows))
    /\ LoadReturned /\ handle = "closed" => returned = lines

\* load returned a record made from a row with blank cells between its
\* stars, after reading an all-blank row that declares 0 stars
C10_Witness ==
    /\ pc = "loaded"
    /\ \E k \in 1 .. Len(returned) :
        /\ returned[k].star_ids = <<5, 0>>
        /\ NonBlankStarColumns(csv_rows[line_rows[k]]) = {1, 3}
    /\ \E i \in 1 .. Len(csv_rows) :
        /\ Processed(i)
        /\ NonBlankStarColumns(csv_rows[i]) = {}
        /\ Strip(csv_rows[i].nr.text) = <<"0">>

\* what a record sequence looks like once stored in freshly created tables
StoredLines(L) ==
    {[line_id |-> i, constellation |-> L[i].constellation,
      line_number |-> L[i].line_number, star_count |-> Len(L[i].star_ids)]
        : i \in 1 .. Len(L)}

StoredStars(L) ==
    UNION {{[line_id |-> i, sequence_index |-> j, bsc_number |-> L[i].star_ids[j]]
               : j \in 1 .. Len(L[i].star_ids)} : i \in 1 .. Len(L)}

RECURSIVE TotalStars(_)
TotalStars(L) == IF L = <<>> THEN 0 ELSE Len(Head(L).star_ids) + TotalStars(Tail(L))

\* C1 as stated: once an insert failure has propagated out of import_to_db,
\* both tables hold exactly what they held when import_to_db was called.
C1_InsertFailureLeavesTables ==
    pc = "import_raised" /\ raised = "insert" =>
        /\ db.line.rows = db_before.line.rows
        /\ db.star.rows = db_before.star.rows

\* C4: when import_to_db has succeeded twice in succession on the same
\* records, both tables hold exactly what they held after the first call,
\* generated line_id values included.
C4_SecondImportSameTables ==
    pc = "done" /\ last.ok => Tables(db) = last.tables

\* the second of two successive successful calls with the same two records
\* has completed
C4_Witness ==
    /\ pc = "done"
    /\ runs = 2
    /\ last.ok
    /\ Len(returned) = 2
    /\ db.seq = 2

\* C5: after a successful import_to_db, constellation_line holds one row per
\* record and nothing else, constellation_line_star holds one row per star id
\* at its 1-based index under the line's generated id and nothing else.
C5_StoredImage ==
    pc = "done" =>
        /\ db.line = [exists |-> TRUE, rows |-> StoredLines(returned)]
        /\ db.star = [exists |-> TRUE, rows |-> StoredStars(returned)]
        /\ Cardinality(db.line.rows) = Len(returned)
        /\ Cardinality(db.star.rows) = TotalStars(returned)

\* an import of two records, one with two star ids, succeeded on a file that
\* held other rows
C5_Witness ==
    /\ pc = "done"
    /\ Len(returned) = 2
    /\ \E k \in 1 .. 2 : Len(returned[k].star_ids) = 2
    /\ db_before.line.rows # {}
    /\ db_before.star.rows # {}

\* C8 as stated: once load has returned or raised the csv handle is closed,
\* and once import_to_db has returned or raised its connection is closed.
C8_ResourcesReleased ==
    /\ pc \notin {"start", "reading"} => handle # "open"
    /\ pc \in {"done", "import_raised"} => conn # "open"

====
